---- MODULE Spec2Model ----
(***************************************************************************)
(* Model of the offline contest runtime: the contest session controller    *)
(* (pages/EnhancedProblemSolver.tsx), the connectivity monitor             *)
(* (utils/internetMonitor.ts), the user state manager                      *)
(* (utils/userStateManager.ts) and the preparation pipeline                *)
(* (utils/contestPreparation.ts).                                          *)
(*                                                                         *)
(* The session controller is a React function component.  One action is   *)
(* one turn of the event loop: the callbacks that run in it, followed by   *)
(* the render React commits for the state they set and the effects of that *)
(* render.  `st` is therefore the state of the last committed render, the  *)
(* one the closures of event handlers read.  Effects keep the closure of   *)
(* the render in which their dependencies last changed: `sub` for the two  *)
(* connectivity effects, `timer` for the countdown effect; a timeout or a  *)
(* promise continuation keeps the closure of the render that created it.   *)
(***************************************************************************)
EXTENDS Integers, Sequences, FiniteSets, TLC

\* ---------------------------------------------------------------- bounds
MaxViolations == 2      \* violations recorded per behaviour
MaxBurst == 2           \* countdown callbacks that can run in one turn
MaxMounts == 2          \* page loads of the play page per behaviour
MaxResults == 2         \* entries of the results list
MaxClicks == 1          \* clicks on "Submit Results" per page load
MaxPrepCalls == 2       \* prepareContest invocations per behaviour
MaxResets == 1          \* resetPreparation invocations per behaviour
MaxSubscribers == 2     \* callbacks a test subscribes to a singleton
MaxLogins == 2          \* logins per behaviour
MaxTests == 2           \* test cases of a problem
MaxRuns == 1            \* runCode calls per behaviour
NumProblems == 2        \* problems in the contest document
Duration == 2           \* contest duration in seconds (contest document)
DefaultTimeLeft == 3    \* stands for the 7200 s fallback timer
FallbackTimeLeft == 4   \* stands for the 5400 s timer set after a parse error
Scores == {0, 100}      \* per-problem scores a run can produce

\* ------------------------------------------------------ program constants
PenaltyPerViolation == 10
maxRetries == 3
LastProblemIndex == 2
BackoffBaseMs == 1000

None == "none"

\* a localStorage key holding a JSON record: <<>> when absent, <<r>> when set
Absent == <<>>
Some(r) == <<r>>

VARIABLES
  page,     \* "home" or "solver" (the play page is mounted)
  user,     \* id of the authenticated user
  net,      \* navigator.onLine
  mounts,   \* page loads so far
  mon,      \* InternetMonitor singleton
  ls,       \* localStorage
  slow,     \* the network answers a probe in 1000 ms or more
  st,       \* React state of the play page
  sub,      \* closure of the connectivity effects (subscription + 2 s interval)
  timer,    \* closure of the countdown effect
  pend,     \* scheduled timeouts and unresolved promises of the play page
  chain,    \* the submitFinalResults call chain
  gh,       \* observation counters (calls made, requests sent)
  prep,     \* ContestPreparation singleton and its runs
  run,      \* AdvancedOfflineRunner and the runtimes it drives
  sc,       \* markProblemDone's scoring: test cases, run results, score
  ed        \* the editor of the play page: code, language, test results

vars == <<page, user, net, slow, mounts, mon, ls, st, sub, timer, pend, chain, gh,
          prep, run, sc, ed>>

\* ------------------------------------------------------------ pure helpers
RECURSIVE SumSeq(_)
SumSeq(s) == IF s = <<>> THEN 0 ELSE Head(s) + SumSeq(Tail(s))

RECURSIVE Pow2(_)
Pow2(n) == IF n = 0 THEN 1 ELSE 2 * Pow2(n - 1)

Status(on, q) == [isOnline |-> on, quality |-> q]

\* checkConnectivity probing even when navigator.onLine is false
CheckOutcomes_NoShortCircuit(online, late) ==
  IF ~online THEN {[probed |-> TRUE, status |-> Status(FALSE, "offline")]}
  ELSE {[probed |-> TRUE, status |-> Status(TRUE, IF late THEN "poor" ELSE "good")],
        [probed |-> TRUE, status |-> Status(FALSE, "offline")]}

\* InternetMonitor.checkConnectivity: whether the HEAD request is issued and
\* the status the call resolves to (the request succeeded in time, or it
\* failed or was aborted)
CheckOutcomes(online, late) ==
  IF ~online THEN {[probed |-> FALSE, status |-> Status(FALSE, "offline")]}
  ELSE {[probed |-> TRUE, status |-> Status(TRUE, IF late THEN "poor" ELSE "good")],
        [probed |-> TRUE, status |-> Status(FALSE, "offline")]}

\* InternetMonitor.checkConnectivity: the statuses a probe can resolve to
CheckConnectivity(online, late) == {o.status : o \in CheckOutcomes(online, late)}

\* the callbacks a test subscribes; the callback of subscriber 1 throws on
\* every invocation
Subscribers == 1..MaxSubscribers
Throws(c) == c = 1

\* useState initial values of the play page
InitialState(status) ==
  [started |-> FALSE, completed |-> FALSE, timeLeft |-> 0, viol |-> 0, pen |-> 0,
   idx |-> 0, results |-> <<>>, status |-> status, showFinal |-> FALSE,
   loaded |-> FALSE]

\* the editor of a freshly mounted play page
NoEditor == [code |-> "", language |-> "javascript", testResults |-> Absent,
             scored |-> Absent]

NoSub == [active |-> FALSE, prev |-> Status(FALSE, "offline"),
          started |-> FALSE, completed |-> FALSE]
NoTimer == [active |-> FALSE, completed |-> FALSE, results |-> <<>>, pen |-> 0]
NoPend == [fetch |-> FALSE, effChecks |-> {}, startCheck |-> FALSE, enh |-> {},
           complete |-> {}, next |-> {}, showFinal |-> FALSE,
           navOk |-> FALSE, navFail |-> FALSE]
NoChain == [phase |-> "idle", retry |-> 0, online |-> FALSE, clicks |-> 0]
\* Observations of what the program did, kept for the properties:
\*   completions, timerCompletions  calls of completeContest in this session
\*                                  (all, and those made by the countdown)
\*   trigger     what called completeContest last
\*   violSince   violations recorded since the network last went down
\*   restored    the session values read from contest_state at page load
\*   posts, failures, successes, acked, postsAfterAck, delays, reported
\*               the requests, outcomes and backoff delays of the call chain
\*   heard       per subscriber of the monitor, <<v>> when its callback was
\*               last invoked with v since it subscribed, <<>> when never
\*   escaped     an exception left a method of the monitor
\*   lastCheck   the last direct performCheck call: was the link reported
\*               down, was a request issued, the status it resolved to
\*   logins, loginUser, loginReturn
\*               logins so far, the user of the last one and what
\*               checkAndResetUserState returned to it
NoGhost == [completions |-> 0, timerCompletions |-> 0, trigger |-> "none",
            violSince |-> 0, restored |-> <<>>,
            posts |-> 0, failures |-> 0,
            successes |-> 0, acked |-> FALSE, postsAfterAck |-> 0,
            delays |-> <<>>, reported |-> FALSE,
            heard |-> [c \in Subscribers |-> <<>>], escaped |-> FALSE,
            lastCheck |-> <<>>,
            logins |-> 0, loginUser |-> "none", loginReturn |-> FALSE]
\* lastCall records the last of startMonitoring / stopMonitoring called and
\* prevCall the one before it; callbacks is the array of subscribed callbacks
NewMonitor(online) ==
  [status |-> Status(online, IF online THEN "good" ELSE "offline"),
   isMonitoring |-> FALSE, intervals |-> 0, lastCall |-> "none",
   prevCall |-> "none", callbacks |-> <<>>]

\* The mutable world an operation of the play page works on.
World == [mon |-> mon, ls |-> ls, st |-> st, pend |-> pend, gh |-> gh]

Commit(w) ==
  /\ mon' = w.mon
  /\ ls' = w.ls
  /\ st' = w.st
  /\ pend' = w.pend
  /\ gh' = w.gh

WithinBounds(w) ==
  /\ w.st.viol <= MaxViolations
  /\ Len(w.ls.results) <= MaxResults

\* ------------------------------------------------------ connectivity monitor
\* handleInternetViolation without its setPenaltyPoints
HandleViolation_NoPenalty(w) ==
  [w EXCEPT !.ls.violations = @ + 1,
            !.st.viol = @ + 1,
            !.gh.violSince = @ + 1]

\* handleInternetViolation of the play page, which also appends to the
\* monitor's violation log
HandleViolation(w) ==
  [w EXCEPT !.ls.violations = @ + 1,
            !.st.viol = @ + 1,
            !.st.pen = @ + PenaltyPerViolation,
            !.gh.violSince = @ + 1]

\* the callback the play page subscribes to the monitor, under closure c
SubCallback(w, c, status) ==
  LET w1 == [w EXCEPT !.st.status = status,
                      !.ls.last = IF status.isOnline THEN "online" ELSE "offline"]
  IN IF c.started /\ ~c.completed /\ status.isOnline /\ ~c.prev.isOnline
       THEN HandleViolation(w1)
       ELSE w1

\* one invocation of the callback of subscriber c with value v; caught says
\* whether the call site wraps it in try/catch
Invoke(w, c, v, caught) ==
  [w EXCEPT !.gh.heard[c] = <<v>>,
            !.gh.escaped = @ \/ (Throws(c) /\ ~caught)]

\* the forEach of updateStatus over the subscribed callbacks ids
RECURSIVE Broadcast(_, _, _)
Broadcast(w, ids, status) ==
  IF ids = <<>> THEN w
  ELSE Broadcast(Invoke(w, Head(ids), status, TRUE), Tail(ids), status)

\* InternetMonitor.updateStatus: store and broadcast (c is the play page's
\* subscription)
UpdateStatus(w, c, status) ==
  LET w1 == [w EXCEPT !.mon.status = status]
      w2 == IF c.active THEN SubCallback(w1, c, status) ELSE w1
  IN Broadcast(w2, w2.mon.callbacks, status)

\* InternetMonitor.performCheck resolving to status
PerformCheck(w, c, status) == UpdateStatus(w, c, status)

\* startMonitoring without its isMonitoring guard
StartMonitoring_Unguarded(w) ==
  [w EXCEPT !.mon.isMonitoring = TRUE, !.mon.intervals = @ + 1,
            !.mon.prevCall = w.mon.lastCall, !.mon.lastCall = "start"]

\* InternetMonitor.startMonitoring
StartMonitoring(w) ==
  IF w.mon.isMonitoring
    THEN [w EXCEPT !.mon.prevCall = w.mon.lastCall, !.mon.lastCall = "start"]
    ELSE [w EXCEPT !.mon.isMonitoring = TRUE, !.mon.intervals = @ + 1,
                   !.mon.prevCall = w.mon.lastCall, !.mon.lastCall = "start"]

\* InternetMonitor.stopMonitoring
StopMonitoring(w) ==
  [w EXCEPT !.mon.isMonitoring = FALSE, !.mon.intervals = 0,
            !.mon.prevCall = w.mon.lastCall, !.mon.lastCall = "stop"]

\* RemoveFirst(q, c): q.splice(q.indexOf(c), 1)
RECURSIVE RemoveFirst(_, _)
RemoveFirst(q, c) ==
  IF q = <<>> THEN <<>>
  ELSE IF Head(q) = c THEN Tail(q)
  ELSE <<Head(q)>> \o RemoveFirst(Tail(q), c)

InSeq(q, c) == \E i \in 1..Len(q) : q[i] = c

\* InternetMonitor.subscribe(callback of c)
SubscribeMonitor(w, c) == [w EXCEPT !.mon.callbacks = Append(@, c)]

\* the unsubscribe function subscribe returned for c
UnsubscribeMonitor(w, c) ==
  [w EXCEPT !.mon.callbacks = RemoveFirst(@, c), !.gh.heard[c] = <<>>]

\* --------------------------------------------------- play page: operations
\* completeContest under the closure c of the render that created it
CompleteContest(w, c) ==
  LET w1 == StopMonitoring([w EXCEPT !.st.completed = TRUE, !.st.showFinal = TRUE])
  IN [w1 EXCEPT !.ls.final = Some([totalScore |-> SumSeq(c.results) - c.pen,
                                   penaltyPoints |-> c.pen,
                                   problemResults |-> c.results]),
                !.ls.state = Absent,
                !.pend.showFinal = TRUE,
                !.gh.completions = @ + 1]

\* startContest without its internetMonitor.startMonitoring call
StartContest_NoMonitoring(w) ==
  [w EXCEPT !.st.started = TRUE,
            !.ls.results = <<>>,
            !.ls.final = Absent,
            !.st.results = <<>>,
            !.st.idx = 0,
            !.st.completed = FALSE,
            !.st.showFinal = FALSE,
            !.pend.startCheck = TRUE,
            !.gh.completions = 0,
            !.gh.timerCompletions = 0,
            !.gh.trigger = "none"]

\* startContest
StartContest(w) ==
  LET w1 == StartMonitoring([w EXCEPT !.st.started = TRUE])
  IN [w1 EXCEPT !.ls.results = <<>>,
                !.ls.final = Absent,
                !.st.results = <<>>,
                !.st.idx = 0,
                !.st.completed = FALSE,
                !.st.showFinal = FALSE,
                !.pend.startCheck = TRUE,
                !.gh.completions = 0,
                !.gh.timerCompletions = 0,
                !.gh.trigger = "none"]

\* saveContestState leaving penaltyPoints out of the record
Snapshot_NoPenalty(s) ==
  [contestStarted |-> s.started, currentProblemIndex |-> s.idx,
   problemResults |-> s.results, contestCompleted |-> s.completed,
   timeLeft |-> s.timeLeft, violationCount |-> s.viol, penaltyPoints |-> 0]

\* saveContestState from the values of one render
Snapshot(s) ==
  [contestStarted |-> s.started, currentProblemIndex |-> s.idx,
   problemResults |-> s.results, contestCompleted |-> s.completed,
   timeLeft |-> s.timeLeft, violationCount |-> s.viol, penaltyPoints |-> s.pen]

\* hydrateFromData: the contest document or its cached copy has arrived
HydrateFromData(w, hasDuration, closureTimeLeft) ==
  [w EXCEPT !.st.timeLeft = IF hasDuration THEN Duration
                            ELSE IF closureTimeLeft = 0 THEN DefaultTimeLeft ELSE @,
            !.st.loaded = TRUE,
            !.st.idx = 0]

\* loadFromCache: is there anything to hydrate from
CacheAvailable(l) == l.cache \/ l.probs

\* UserStateManager.resetAllUserState
ResetAllUserState(l) ==
  [l EXCEPT !.state = Absent, !.results = <<>>, !.final = Absent, !.violations = 0,
            !.cache = FALSE, !.probs = FALSE, !.prepared = FALSE]

\* checkAndResetUserState treating every login as the stored user's
UserChanged_Never(l, u) == FALSE

\* UserStateManager.checkAndResetUserState: TRUE when the state was reset
UserChanged(l, u) == l.user # u

CheckAndResetUserState(l, u) ==
  IF UserChanged(l, u) THEN [ResetAllUserState(l) EXCEPT !.user = u] ELSE l

\* the user-change effect: a different stored identity wipes the session
UserChangeEffect(w, u) ==
  IF UserChanged(w.ls, u)
    THEN StopMonitoring(
           [w EXCEPT !.ls = CheckAndResetUserState(w.ls, u),
                     !.st.started = FALSE,
                     !.st.idx = 0,
                     !.st.results = <<>>,
                     !.st.completed = FALSE,
                     !.st.timeLeft = IF @ > 0 THEN @ ELSE DefaultTimeLeft,
                     !.st.viol = 0,
                     !.st.pen = 0,
                     !.st.showFinal = FALSE])
    ELSE w

\* the five session values the round trip is about
SessionValues(s) ==
  [currentProblemIndex |-> s.currentProblemIndex, problemResults |-> s.problemResults,
   timeLeft |-> s.timeLeft, violationCount |-> s.violationCount,
   penaltyPoints |-> s.penaltyPoints]

\* rehydration from the saved contest_state record s (closure timeLeft is 0)
Rehydrate(w, s) ==
  LET w1 == [w EXCEPT !.gh.restored = Some(SessionValues(s)),
                      !.st.started = s.contestStarted,
                      !.st.idx = s.currentProblemIndex,
                      !.st.results = s.problemResults,
                      !.st.completed = s.contestCompleted,
                      !.st.timeLeft = s.timeLeft,
                      !.st.viol = s.violationCount,
                      !.st.pen = s.penaltyPoints]
  IN IF s.contestCompleted THEN [w1 EXCEPT !.st.showFinal = TRUE]
     ELSE IF s.contestStarted THEN StartMonitoring(w1)
     ELSE w1

\* a contest_state value that JSON.parse rejects, or that parses to null
Unparsable == [unparsable |-> TRUE]

\* JSON.parse and the property reads that follow it do not throw
Parses(r) == r # Unparsable

\* the catch block of the initialisation effect swallowing the error and
\* doing nothing else
ParseFallback_NotStarted(w) == w

\* the catch block of the initialisation effect
ParseFallback(w) ==
  StartContest([w EXCEPT !.st.timeLeft = IF @ > 0 THEN @ ELSE FallbackTimeLeft])

\* the initialisation effect, run once per page load; its manualInternetCheck
\* runs under the closure of the first render (contest not started), where
\* it does what the connectivity effect's check does under that closure
InitEffect(w) ==
  LET w1 == [w EXCEPT !.pend.effChecks = @ \cup {[started |-> FALSE, completed |-> FALSE]}]
  IN IF w1.ls.state # Absent
       THEN IF Parses(w1.ls.state[1]) THEN Rehydrate(w1, w1.ls.state[1])
                                      ELSE ParseFallback(w1)
       ELSE StartContest([w1 EXCEPT !.st.timeLeft = IF @ > 0 THEN @ ELSE DefaultTimeLeft])

\* the fetch effect, run once per page load
FetchEffect(w, online) ==
  IF ~online
    THEN IF CacheAvailable(w.ls) THEN HydrateFromData(w, w.ls.cache, 0) ELSE w
    ELSE [w EXCEPT !.pend.fetch = TRUE]


\* ------------------------------------------------------- play page: render
\* The render React commits after a turn that left the world w, and the
\* effects of that render; prev is the state of the previous render, sb and
\* tm the effect closures in force.  An effect runs when one of its
\* dependencies differs from the previous render.
RenderEffects(w, prev, sb, tm) ==
  LET cur == w.st
      depsMon == cur.started # prev.started \/ cur.completed # prev.completed
      depsTimer == depsMon \/ cur.timeLeft # prev.timeLeft
      depsSave == Snapshot(cur) # Snapshot(prev)
      w1 == IF depsMon
              THEN [w EXCEPT !.st.status = w.mon.status,
                             !.pend.effChecks =
                                @ \cup {[started |-> cur.started, completed |-> cur.completed]}]
              ELSE w
      w2 == IF depsSave /\ (cur.started \/ cur.completed)
              THEN [w1 EXCEPT !.ls.state = Some(Snapshot(cur))]
              ELSE w1
  IN [w |-> w2,
      sub |-> IF depsMon
                THEN [active |-> TRUE, prev |-> cur.status,
                      started |-> cur.started, completed |-> cur.completed]
                ELSE sb,
      timer |-> IF depsTimer
                  THEN IF cur.started /\ cur.timeLeft > 0
                         THEN [active |-> TRUE, completed |-> cur.completed,
                               results |-> cur.results, pen |-> cur.pen]
                         ELSE NoTimer
                  ELSE tm]

\* a turn of the mounted play page ends: render, effects, new state
Turn(w) ==
  LET r == RenderEffects(w, st, sub, timer)
  IN /\ WithinBounds(r.w)
     /\ Commit(r.w)
     /\ sub' = r.sub
     /\ timer' = r.timer

\* ------------------------------------------------------ play page: actions
\* The play page is loaded (first visit or reload): every script object is
\* re-created, the component renders with its initial state, its effects
\* run in declaration order and the state they set is rendered.
Mount ==
  /\ mounts < MaxMounts
  /\ mounts' = mounts + 1
  /\ page' = "solver"
  /\ LET m0 == NewMonitor(net)
         s0 == InitialState(m0.status)
         c0 == [active |-> TRUE, prev |-> m0.status,
                started |-> FALSE, completed |-> FALSE]
         w0 == [mon |-> m0, ls |-> ls, st |-> s0, pend |-> NoPend,
                gh |-> [gh EXCEPT !.restored = Absent]]
         w1 == FetchEffect(w0, net)
         w2 == UserChangeEffect(w1, user)
         w3 == InitEffect(w2)
         r == RenderEffects(w3, s0, c0, NoTimer)
     IN /\ Commit(r.w)
        /\ sub' = r.sub
        /\ timer' = r.timer
  /\ chain' = NoChain
  /\ ed' = NoEditor
  /\ UNCHANGED <<user, net, slow, prep, run, sc>>

\* api.get('/contests/id') settles
FetchResolve ==
  /\ page = "solver"
  /\ pend.fetch
  /\ \E ok \in (IF net THEN BOOLEAN ELSE {FALSE}) :
       LET w0 == [World EXCEPT !.pend.fetch = FALSE]
       IN Turn(IF ok
                 THEN HydrateFromData([w0 EXCEPT !.ls.cache = TRUE, !.ls.probs = TRUE], TRUE, 0)
                 ELSE IF CacheAvailable(w0.ls)
                        THEN HydrateFromData(w0, w0.ls.cache, 0)
                        ELSE w0)
  /\ UNCHANGED <<page, user, net, slow, mounts, chain, prep, run, sc, ed>>

\* an updater that leaves timeLeft as it is
TickUpdater_NoDecrement(w, tm) == w

\* the updater the countdown callback passes to setTimeLeft, under the
\* closure tm of the countdown effect
TickUpdater(w, tm) ==
  IF w.st.timeLeft <= 1
    THEN LET w1 == IF ~tm.completed
                     THEN CompleteContest([w EXCEPT !.st.started = FALSE,
                                                    !.gh.timerCompletions = @ + 1,
                                                    !.gh.trigger = "timer"], tm)
                     ELSE w
         IN [w1 EXCEPT !.st.timeLeft = 0]
    ELSE [w EXCEPT !.st.timeLeft = @ - 1]

RECURSIVE Ticks(_, _, _)
Ticks(w, tm, n) == IF n = 0 THEN w ELSE Ticks(TickUpdater(w, tm), tm, n - 1)

\* the 1-second countdown: n callbacks of the interval run in this turn
TimerTick ==
  /\ page = "solver"
  /\ timer.active
  /\ \E n \in 1..MaxBurst : Turn(Ticks(World, timer, n))
  /\ UNCHANGED <<page, user, net, slow, mounts, chain, prep, run, sc, ed>>

\* navigator.onLine flips; the browser event reaches the monitor
NetChange ==
  /\ net' = ~net
  /\ LET s == Status(net', IF net' THEN "good" ELSE "offline")
         w1 == UpdateStatus(World, sub, s)
     IN Turn(IF net' THEN w1 ELSE [w1 EXCEPT !.gh.violSince = 0])
  /\ UNCHANGED <<page, user, slow, mounts, chain, prep, run, sc, ed>>

\* the monitor's 2-second probe
MonitorProbe ==
  /\ mon.intervals > 0
  /\ \E s \in CheckConnectivity(net, slow) : Turn(PerformCheck(World, sub, s))
  /\ UNCHANGED <<page, user, net, slow, mounts, chain, prep, run, sc, ed>>

\* performCheck().then(...) of the connectivity effect (or the
\* manualInternetCheck of the first render) settles, under the closure c of
\* the render that started it
EffectCheckResolve ==
  /\ page = "solver"
  /\ \E c \in pend.effChecks, s \in CheckConnectivity(net, slow),
        recent \in (IF ls.loadTime THEN BOOLEAN ELSE {TRUE}) :
       LET w1 == PerformCheck([World EXCEPT !.pend.effChecks = @ \ {c}], sub, s)
           w2 == [w1 EXCEPT !.st.status = w1.mon.status]
           on == w2.mon.status.isOnline
       IN Turn(IF c.started /\ ~c.completed /\ on
                 THEN LET w4 == IF w2.ls.last \in {None, "offline"} \/ recent
                                  THEN HandleViolation(w2) ELSE w2
                      IN [w4 EXCEPT !.ls.last = "online", !.ls.loadTime = TRUE]
                 ELSE IF ~on THEN [w2 EXCEPT !.ls.last = "offline"] ELSE w2)
  /\ UNCHANGED <<page, user, net, slow, mounts, chain, prep, run, sc, ed>>

\* performCheck().then(...) of startContest settles
StartCheckResolve ==
  /\ page = "solver"
  /\ pend.startCheck
  /\ \E s \in CheckConnectivity(net, slow) :
       LET w1 == PerformCheck([World EXCEPT !.pend.startCheck = FALSE], sub, s)
       IN Turn([w1 EXCEPT !.st.status = w1.mon.status,
                          !.ls.last = IF w1.mon.status.isOnline THEN "online" ELSE "offline",
                          !.ls.loadTime = TRUE])
  /\ UNCHANGED <<page, user, net, slow, mounts, chain, prep, run, sc, ed>>

\* checkInternetStatusFromUI under closure c; domOnline is what the status
\* element of the committed render shows, hasDom whether it is rendered
CheckInternetStatusFromUI(w, c, hasDom, domOnline) ==
  IF hasDom /\ domOnline # c.prev.isOnline
    THEN LET w1 == [w EXCEPT !.st.status = Status(domOnline, "good")]
         IN IF c.started /\ ~c.completed /\ domOnline
              THEN LET w2 == IF w1.ls.last \in {None, "offline"}
                               THEN HandleViolation(w1) ELSE w1
                   IN [w2 EXCEPT !.ls.last = "online"]
              ELSE IF ~domOnline THEN [w1 EXCEPT !.ls.last = "offline"] ELSE w1
    ELSE w

\* the interval callback of the second connectivity effect after its
\* `await internetMonitor.performCheck()`, which resolved to s; ui is what
\* checkInternetStatusFromUI returned as isOnline
EnhancedContinue(w, ui, s) ==
  LET w2 == PerformCheck(w, sub, s)
      cur == w2.mon.status
      w3 == [w2 EXCEPT !.st.status =
               IF ui # cur.isOnline
                 THEN Status(ui, IF ui THEN "good" ELSE "offline")
                 ELSE cur]
  IN IF ui
       THEN LET w5 == IF w3.ls.last = "offline" THEN HandleViolation(w3) ELSE w3
            IN [w5 EXCEPT !.ls.last = "online"]
       ELSE [w3 EXCEPT !.ls.last = "offline"]

\* the 2-second interval of the second connectivity effect fires: it runs
\* checkInternetStatusFromUI and calls performCheck.  With the link reported
\* down checkConnectivity answers without a request and the callback
\* finishes in this turn; otherwise the request is in flight and React
\* renders what the callback has set so far.
EnhancedTick ==
  /\ page = "solver"
  /\ sub.active /\ sub.started /\ ~sub.completed
  /\ LET ui == st.loaded /\ st.status.isOnline
         w1 == CheckInternetStatusFromUI(World, sub, st.loaded, st.status.isOnline)
     IN IF ~net
          THEN Turn(EnhancedContinue(w1, ui, Status(FALSE, "offline")))
          ELSE Turn([w1 EXCEPT !.pend.enh = @ \cup {ui}])
  /\ UNCHANGED <<page, user, net, slow, mounts, chain, prep, run, sc, ed>>

\* the request of an interval callback settles and the callback continues
EnhancedResolve ==
  /\ page = "solver"
  /\ \E ui \in pend.enh, s \in CheckConnectivity(net, slow) :
       Turn(EnhancedContinue([World EXCEPT !.pend.enh = @ \ {ui}], ui, s))
  /\ UNCHANGED <<page, user, net, slow, mounts, chain, prep, run, sc, ed>>

\* markProblemDone, clicked in the committed render; score is what the run
\* of the editor's code earns
MarkProblemDone ==
  /\ page = "solver"
  /\ st.loaded /\ ~st.completed
  /\ \E score \in Scores :
       LET existing == Append(ls.results, score)
           w1 == [World EXCEPT !.ls.results = existing, !.st.results = existing]
       IN Turn(IF st.idx >= LastProblemIndex \/ Len(existing) >= NumProblems
                 THEN [w1 EXCEPT !.pend.complete =
                         @ \cup {[results |-> st.results, pen |-> st.pen]}]
                 ELSE [w1 EXCEPT !.pend.next = @ \cup {st.idx}])
  /\ UNCHANGED <<page, user, net, slow, mounts, chain, prep, run, sc, ed>>

\* the 1.5 s timeout of markProblemDone that calls completeContest
DelayedComplete ==
  /\ page = "solver"
  /\ \E c \in pend.complete :
       Turn(CompleteContest([World EXCEPT !.pend.complete = @ \ {c},
                                          !.gh.trigger = "problem"], c))
  /\ UNCHANGED <<page, user, net, slow, mounts, chain, prep, run, sc, ed>>

\* loadNextProblem leaving the current problem in place
LoadNextProblem_Stays(w, i) == w

\* loadNextProblem under the index i of the render that scheduled it
LoadNextProblem(w, i) ==
  IF i + 1 < NumProblems THEN [w EXCEPT !.st.idx = i + 1] ELSE w

\* the 1.5 s timeout of markProblemDone that calls loadNextProblem
DelayedNext ==
  /\ page = "solver"
  /\ \E i \in pend.next :
       Turn(LoadNextProblem([World EXCEPT !.pend.next = @ \ {i}], i))
  /\ UNCHANGED <<page, user, net, slow, mounts, chain, prep, run, sc, ed>>

\* the 2 s timeout of completeContest
ShowFinalFire ==
  /\ page = "solver"
  /\ pend.showFinal
  /\ Turn([World EXCEPT !.pend.showFinal = FALSE, !.st.showFinal = TRUE])
  /\ UNCHANGED <<page, user, net, slow, mounts, chain, prep, run, sc, ed>>

\* ------------------------------------------------- final result submission
\* submitFinalResults(retry) up to its fetch: ch is the chain (its closure),
\* g the observation counters
BeginAttempt(ch, g, retry) ==
  IF ~ch.online
    THEN [chain |-> [ch EXCEPT !.phase = "aborted", !.retry = retry], gh |-> g]
    ELSE [chain |-> [ch EXCEPT !.phase = "posting", !.retry = retry],
          gh |-> [g EXCEPT !.posts = @ + 1,
                           !.postsAfterAck = IF g.acked THEN @ + 1 ELSE @]]

\* the retry decision with an off-by-one bound
RetryAllowed_OneMore(retry) == retry < maxRetries

\* the retry decision of the catch branch
RetryAllowed(retry) == retry < maxRetries - 1

\* the backoff delay of the catch branch, in milliseconds
RetryDelay(retry) == Pow2(retry) * BackoffBaseMs

\* the outcomes of one POST: acknowledged and body read, acknowledged but
\* reading the body rejects, error status, transport failure
PostOutcomes(online) ==
  IF online THEN {"ok", "ok_body_rejects", "http_error", "network_error"}
  ELSE {"network_error"}

\* "Submit Results" is clicked in the committed render
SubmitClick ==
  /\ page = "solver"
  /\ st.showFinal /\ st.status.isOnline
  /\ chain.phase \notin {"posting", "wait"}
  /\ chain.clicks < MaxClicks
  /\ LET g0 == [gh EXCEPT !.posts = 0, !.failures = 0, !.successes = 0,
                          !.acked = FALSE, !.postsAfterAck = 0,
                          !.delays = <<>>, !.reported = FALSE]
         ch0 == [chain EXCEPT !.online = st.status.isOnline, !.clicks = @ + 1]
         r == BeginAttempt(ch0, g0, 0)
     IN /\ chain' = r.chain
        /\ gh' = r.gh
  /\ UNCHANGED <<page, user, net, slow, mounts, mon, ls, st, sub, timer, pend, prep, run, sc, ed>>

\* the POST of the current attempt settles
PostResolve ==
  /\ page = "solver"
  /\ chain.phase = "posting"
  /\ \E o \in PostOutcomes(net) :
       IF o = "ok"
         THEN /\ chain' = [chain EXCEPT !.phase = "success"]
              /\ Turn([World EXCEPT !.st.showFinal = FALSE,
                                    !.pend.navOk = TRUE,
                                    !.gh.acked = TRUE,
                                    !.gh.successes = @ + 1])
         ELSE LET g1 == [gh EXCEPT !.failures = @ + 1,
                                   !.acked = @ \/ o = "ok_body_rejects"]
              IN IF RetryAllowed(chain.retry)
                   THEN /\ chain' = [chain EXCEPT !.phase = "wait"]
                        /\ gh' = [g1 EXCEPT !.delays = Append(@, RetryDelay(chain.retry))]
                        /\ UNCHANGED <<mon, ls, st, sub, timer, pend>>
                   ELSE /\ chain' = [chain EXCEPT !.phase = "exhausted"]
                        /\ gh' = [g1 EXCEPT !.reported = TRUE]
                        /\ pend' = [pend EXCEPT !.navFail = TRUE]
                        /\ UNCHANGED <<mon, ls, st, sub, timer>>
  /\ UNCHANGED <<page, user, net, slow, mounts, prep, run, sc, ed>>

\* the backoff timeout fires: submitFinalResults(retry + 1)
RetryFire ==
  /\ page = "solver"
  /\ chain.phase = "wait"
  /\ LET r == BeginAttempt(chain, gh, chain.retry + 1)
     IN /\ chain' = r.chain
        /\ gh' = r.gh
  /\ UNCHANGED <<page, user, net, slow, mounts, mon, ls, st, sub, timer, pend, prep, run, sc, ed>>

\* leaving the play page: effect clean-ups run
Unmount ==
  /\ page' = "home"
  /\ sub' = NoSub
  /\ timer' = NoTimer

\* the 2 s timeout after a successful submission: navigate('/')
NavigateAfterSuccess ==
  /\ page = "solver"
  /\ pend.navOk
  /\ Unmount
  /\ pend' = [pend EXCEPT !.navOk = FALSE]
  /\ UNCHANGED <<user, net, slow, mounts, mon, ls, st, chain, gh, prep, run, sc, ed>>

\* the 3 s timeout closing the dialog without navigating
NavigateAfterFailure_Stays ==
  /\ page = "solver"
  /\ pend.navFail
  /\ pend' = [pend EXCEPT !.navFail = FALSE]
  /\ st' = [st EXCEPT !.showFinal = FALSE]
  /\ UNCHANGED <<page, sub, timer, user, net, slow, mounts, mon, ls, chain, gh, prep, run, sc, ed>>

\* the 3 s timeout after the last failed attempt: close the dialog, navigate('/')
NavigateAfterFailure ==
  /\ page = "solver"
  /\ pend.navFail
  /\ Unmount
  /\ pend' = [pend EXCEPT !.navFail = FALSE]
  /\ st' = [st EXCEPT !.showFinal = FALSE]
  /\ UNCHANGED <<user, net, slow, mounts, mon, ls, chain, gh, prep, run, sc, ed>>

\* ------------------------------------------------------ identity and entry
Users == {"A", "B"}

\* AuthContext.login (or register, or fetchUser with a new token) at a page
\* other than the play page: checkAndResetUserState(u), then setUser(u)
Login ==
  /\ page = "home"
  /\ gh.logins < MaxLogins
  /\ \E u \in Users :
       /\ user' = u
       /\ ls' = CheckAndResetUserState(ls, u)
       /\ gh' = [gh EXCEPT !.logins = @ + 1, !.loginUser = u,
                           !.loginReturn = UserChanged(ls, u)]
  /\ UNCHANGED <<page, net, slow, mounts, mon, st, sub, timer, pend, chain, prep, run, sc, ed>>

\* ContestPage.handleStartContest: the contest page lets the user through to
\* the play page when the contest is prepared and the network is off
HandleStartContest ==
  /\ page = "home"
  /\ ls.prepared
  /\ ~mon.status.isOnline
  /\ Mount

\* ------------------------------------------- the monitor called directly
\* The singleton driven through its public methods, outside the play page.
CallStartMonitoring ==
  /\ page = "home"
  /\ Commit(StartMonitoring(World))
  /\ UNCHANGED <<page, user, net, slow, mounts, sub, timer, chain, prep, run, sc, ed>>

CallStopMonitoring ==
  /\ page = "home"
  /\ Commit(StopMonitoring(World))
  /\ UNCHANGED <<page, user, net, slow, mounts, sub, timer, chain, prep, run, sc, ed>>

\* performCheck() is called and resolves
CallPerformCheck ==
  /\ page = "home"
  /\ \E o \in CheckOutcomes(net, slow) :
       Commit(PerformCheck([World EXCEPT !.gh.lastCheck =
                              <<[down |-> ~net, probed |-> o.probed,
                                 status |-> o.status]>>],
                           sub, o.status))
  /\ UNCHANGED <<page, user, net, slow, mounts, sub, timer, chain, prep, run, sc, ed>>

MonitorSubscribe ==
  /\ page = "home"
  /\ \E c \in Subscribers :
       /\ ~InSeq(mon.callbacks, c)
       /\ Commit(SubscribeMonitor(World, c))
  /\ UNCHANGED <<page, user, net, slow, mounts, sub, timer, chain, prep, run, sc, ed>>

MonitorUnsubscribe ==
  /\ page = "home"
  /\ \E c \in Subscribers :
       /\ InSeq(mon.callbacks, c)
       /\ Commit(UnsubscribeMonitor(World, c))
  /\ UNCHANGED <<page, user, net, slow, mounts, sub, timer, chain, prep, run, sc, ed>>

\* the network gets slow (a probe takes 1000 ms or more) or fast again
LatencyChange ==
  /\ slow' = ~slow
  /\ UNCHANGED <<page, user, net, mounts, mon, ls, st, sub, timer, pend, chain, gh, prep, run, sc, ed>>

\* --------------------------------------------------- preparation pipeline
RunIds == 1..MaxPrepCalls

NoPrep ==
  [stage |-> "idle", progress |-> 0, isPreparing |-> FALSE,
   pc |-> [r \in RunIds |-> "none"], ret |-> [r \in RunIds |-> "none"],
   seq |-> [r \in RunIds |-> <<>>],
   calls |-> 0, notifs |-> 0, resets |-> 0, pyodide |-> FALSE,
   callbacks |-> <<>>, heard |-> [c \in Subscribers |-> <<>>],
   escaped |-> FALSE]

RunPcs == {"python", "javascript", "fetch", "problems", "preload", "environment", "final"}

ActiveRuns(p) == {r \in RunIds : p.pc[r] \in RunPcs}

\* the progress object the pipeline holds
Progress(p) == [stage |-> p.stage, progress |-> p.progress]

\* one invocation of the callback of subscriber c with the live progress;
\* caught says whether the call site wraps it in try/catch; heard[c] is what
\* the callback was last invoked with since it subscribed, escaped whether
\* an exception left a method of the pipeline
InvokeProgress(p, c, caught) ==
  [p EXCEPT !.heard[c] = <<Progress(p)>>,
            !.escaped = @ \/ (Throws(c) /\ ~caught)]

\* the forEach of updateProgress over the subscribed callbacks ids
RECURSIVE BroadcastProgress(_, _)
BroadcastProgress(p, ids) ==
  IF ids = <<>> THEN p
  ELSE BroadcastProgress(InvokeProgress(p, Head(ids), TRUE), Tail(ids))

\* ContestPreparation.updateProgress by run r: merge the update into the
\* live progress and notify the subscribers; u.stage = "" keeps the stage
UpdateProgress(p, r, u) ==
  LET p1 == [p EXCEPT !.stage = IF u.stage = "" THEN @ ELSE u.stage,
                      !.progress = u.progress,
                      !.notifs = @ + 1,
                      !.seq[r] = Append(@, u.progress)]
  IN BroadcastProgress(p1, p1.callbacks)

Upd(stage, progress) == [stage |-> stage, progress |-> progress]

\* prepareContest without its in-flight guard
PrepareRejected_Never(p) == FALSE

\* the in-flight guard at the top of prepareContest
PrepareRejected(p) == p.isPreparing

\* the progress published when the interpreter warm-up of stage 4 settles
WarmUpProgress(ok) == IF ok THEN 94 ELSE 90

\* prepareContest(contestId) is called: rejected, or run r starts and goes
\* up to the first delay of stage 1
PrepareContest ==
  /\ prep.calls < MaxPrepCalls
  /\ LET r == prep.calls + 1
         p0 == [prep EXCEPT !.calls = r]
     IN prep' = IF PrepareRejected(prep)
                  THEN [p0 EXCEPT !.ret[r] = "false", !.pc[r] = "rejected"]
                  ELSE LET p1 == UpdateProgress([p0 EXCEPT !.isPreparing = TRUE, !.seq[r] = <<>>],
                                                r, Upd("downloading", 0))
                           p2 == UpdateProgress(p1, r, Upd("", 10))
                       IN [p2 EXCEPT !.pc[r] = "python"]
  /\ UNCHANGED <<page, user, net, slow, mounts, mon, ls, st, sub, timer, pend, chain, gh, run, sc, ed>>

\* stage 1 ends, stage 2 starts
PythonLibrariesDone ==
  /\ \E r \in RunIds :
       /\ prep.pc[r] = "python"
       /\ LET p1 == UpdateProgress(prep, r, Upd("", 30))
              p2 == UpdateProgress(p1, r, Upd("", 40))
          IN prep' = [p2 EXCEPT !.pc[r] = "javascript"]
  /\ UNCHANGED <<page, user, net, slow, mounts, mon, ls, st, sub, timer, pend, chain, gh, run, sc, ed>>

\* stage 2 ends, stage 3 starts: cached problems, cached contest payload,
\* or a fetch of the contest document
JavaScriptLibrariesDone ==
  /\ \E r \in RunIds :
       /\ prep.pc[r] = "javascript"
       /\ LET p1 == UpdateProgress(prep, r, Upd("", 60))
              p2 == UpdateProgress(p1, r, Upd("", 70))
          IN /\ prep' = [p2 EXCEPT !.pc[r] = IF CacheAvailable(ls) THEN "problems" ELSE "fetch"]
             /\ ls' = IF ~ls.probs /\ ls.cache THEN [ls EXCEPT !.probs = TRUE] ELSE ls
  /\ UNCHANGED <<page, user, net, slow, mounts, mon, st, sub, timer, pend, chain, gh, run, sc, ed>>

\* the fetch of stage 3 settles; a failure is swallowed
ProblemsFetched ==
  /\ \E r \in RunIds, ok \in (IF net THEN BOOLEAN ELSE {FALSE}) :
       /\ prep.pc[r] = "fetch"
       /\ prep' = [prep EXCEPT !.pc[r] = "problems"]
       /\ ls' = IF ok THEN [ls EXCEPT !.probs = TRUE] ELSE ls
  /\ UNCHANGED <<page, user, net, slow, mounts, mon, st, sub, timer, pend, chain, gh, run, sc, ed>>

\* stage 3 ends, stage 4 starts and awaits the interpreter warm-up
ProblemsLoaded ==
  /\ \E r \in RunIds :
       /\ prep.pc[r] = "problems"
       /\ LET p1 == UpdateProgress(prep, r, Upd("", 85))
              p2 == UpdateProgress(p1, r, Upd("", 90))
              p3 == UpdateProgress(p2, r, Upd("", 92))
          IN prep' = [p3 EXCEPT !.pc[r] = "preload"]
  /\ UNCHANGED <<page, user, net, slow, mounts, mon, ls, st, sub, timer, pend, chain, gh, run, sc, ed>>

\* preloadPythonEnvironment settles: TRUE when the interpreter is loaded,
\* FALSE when loading it failed (it needs the network unless already loaded)
PreloadSettled ==
  /\ \E r \in RunIds,
        ok \in (IF prep.pyodide THEN {TRUE} ELSE IF net THEN BOOLEAN ELSE {FALSE}) :
       /\ prep.pc[r] = "preload"
       /\ LET p1 == UpdateProgress(prep, r, Upd("", WarmUpProgress(ok)))
          IN prep' = [p1 EXCEPT !.pc[r] = "environment", !.pyodide = @ \/ ok]
  /\ UNCHANGED <<page, user, net, slow, mounts, mon, ls, st, sub, timer, pend, chain, gh, run, sc, ed>>

\* stage 4 ends, stage 5 starts: the prepared flag is stored, unless the
\* storage refuses the write, which fails the run
EnvironmentReady ==
  /\ \E r \in RunIds, stored \in BOOLEAN :
       /\ prep.pc[r] = "environment"
       /\ LET p1 == UpdateProgress(prep, r, Upd("", 95))
              p2 == UpdateProgress(p1, r, Upd("", 98))
          IN IF stored
               THEN /\ prep' = [p2 EXCEPT !.pc[r] = "final"]
                    /\ ls' = [ls EXCEPT !.prepared = TRUE]
               ELSE /\ prep' = [UpdateProgress(p2, r, Upd("error", 0))
                                  EXCEPT !.pc[r] = "failed", !.ret[r] = "false",
                                         !.isPreparing = FALSE]
                    /\ ls' = ls
  /\ UNCHANGED <<page, user, net, slow, mounts, mon, st, sub, timer, pend, chain, gh, run, sc, ed>>

\* stage 5 ends without the finally block clearing the guard
PreparationFinished_KeepsGuard ==
  /\ \E r \in RunIds :
       /\ prep.pc[r] = "final"
       /\ prep' = [UpdateProgress(prep, r, Upd("ready", 100))
                     EXCEPT !.pc[r] = "done", !.ret[r] = "true"]
  /\ UNCHANGED <<page, user, net, slow, mounts, mon, ls, st, sub, timer, pend, chain, gh, run, sc, ed>>

\* stage 5 ends: ready, the run returns true and clears the guard
PreparationFinished ==
  /\ \E r \in RunIds :
       /\ prep.pc[r] = "final"
       /\ prep' = [UpdateProgress(prep, r, Upd("ready", 100))
                     EXCEPT !.pc[r] = "done", !.ret[r] = "true", !.isPreparing = FALSE]
  /\ UNCHANGED <<page, user, net, slow, mounts, mon, ls, st, sub, timer, pend, chain, gh, run, sc, ed>>

\* resetPreparation(contestId)
ResetPreparation ==
  /\ prep.resets < MaxResets
  /\ LET p1 == [prep EXCEPT !.stage = "idle", !.progress = 0, !.notifs = @ + 1,
                            !.resets = @ + 1]
     IN prep' = BroadcastProgress(p1, p1.callbacks)
  /\ ls' = [ls EXCEPT !.prepared = FALSE, !.probs = FALSE]
  /\ UNCHANGED <<page, user, net, slow, mounts, mon, st, sub, timer, pend, chain, gh, run, sc, ed>>

\* ContestPreparation.subscribe(callback of c): push, then call it with the
\* current progress
PrepSubscribe ==
  /\ \E c \in Subscribers :
       /\ ~InSeq(prep.callbacks, c)
       /\ prep' = InvokeProgress([prep EXCEPT !.callbacks = Append(@, c)], c, FALSE)
  /\ UNCHANGED <<page, user, net, slow, mounts, mon, ls, st, sub, timer, pend, chain, gh, run, sc, ed>>

\* the unsubscribe function subscribe returned for c
PrepUnsubscribe ==
  /\ \E c \in Subscribers :
       /\ InSeq(prep.callbacks, c)
       /\ prep' = [prep EXCEPT !.callbacks = RemoveFirst(@, c), !.heard[c] = <<>>]
  /\ UNCHANGED <<page, user, net, slow, mounts, mon, ls, st, sub, timer, pend, chain, gh, run, sc, ed>>

\* ------------------------------------------------------- the code runner
\* Texts are sequences of characters.  The ones user code prints and test
\* cases expect: nothing, the answer, the answer followed by white space, a
\* wrong answer.
Texts == {<<>>, <<"5">>, <<"5", " ">>, <<"7">>}

\* String.prototype.trim
RECURSIVE TrimLeft(_)
TrimLeft(t) == IF t # <<>> /\ Head(t) = " " THEN TrimLeft(Tail(t)) ELSE t

RECURSIVE TrimRight(_)
TrimRight(t) ==
  IF t # <<>> /\ t[Len(t)] = " " THEN TrimRight(SubSeq(t, 1, Len(t) - 1)) ELSE t

Trim(t) == TrimRight(TrimLeft(t))

\* normalizeOutput(undefined): the runners always return result: undefined
UndefinedText == <<"undefined">>

\* the test cases a problem can have
TestCases == {[expectedOutput |-> e] : e \in {<<"5">>, <<"5", " ">>, UndefinedText}}

Languages == {"javascript", "python", "cpp"}

\* messages of the exceptions user code can raise: JavaScript can throw the
\* empty string; a Python traceback ends with a line break
ErrorMessages(language) ==
  IF language = "javascript" THEN {<<>>, <<"E">>, <<"E", " ">>} ELSE {<<"E", " ">>}

\* what the code under test does on one test case: it prints and finishes,
\* prints and raises an exception, or does not compile
Behaviours(language) ==
  {[kind |-> "ok", printed |-> p, message |-> <<>>] : p \in Texts}
    \cup {[kind |-> "throws", printed |-> p, message |-> m] :
            p \in Texts, m \in ErrorMessages(language)}
    \cup {[kind |-> "syntax", printed |-> <<>>, message |-> <<"E", " ">>]}

\* The runner singleton, the JavaScript console and the Python interpreter:
\*   consoleLog               what console.log is bound to
\*   sysStdout, sysStdin      what sys.stdout and sys.stdin are bound to
\*   origStdout, origStdin    the Python globals __orig_stdout, __orig_stdin
\*   capturedOut              the Python global __captured_out
\*   last                     what the runtime returned for the last test case
\*   runs                     runCode calls so far
\*   init                     initializePython, started by the constructor:
\*                            "loading", "ready" or "failed"
\* The module's pyodideInstance is prep.pyodide, which the preparation
\* pipeline's preloadPythonEnvironment sets as well.
NoRun ==
  [pc |-> "idle", runs |-> 0, language |-> "javascript", tests |-> <<>>, results |-> <<>>,
   isPythonReady |-> FALSE, init |-> "loading", consoleLog |-> "original",
   sysStdout |-> "original", sysStdin |-> "original",
   origStdout |-> "unset", origStdin |-> "unset",
   capturedOut |-> Absent, last |-> Absent]

\* runJavaScriptUserCode: new Function rejects code that does not compile;
\* otherwise the wrapper redirects console.log, runs the code and restores
\* console.log in its finally block
RunJavaScriptUserCode(r, b) ==
  IF b.kind = "syntax"
    THEN [run |-> r, stdout |-> <<>>, error |-> Some(b.message)]
    ELSE LET origLog == r.consoleLog
             r1 == [r EXCEPT !.consoleLog = "capture"]
             r2 == [r1 EXCEPT !.consoleLog = origLog]
         IN [run |-> r2, stdout |-> b.printed,
             error |-> IF b.kind = "throws" THEN Some(b.message) ELSE Absent]

\* the second runPythonAsync of runPythonUserCode: __captured_out if it is
\* a global, else '', then String(...).trim()
CapturedStdout(r) == IF r.capturedOut = Absent THEN <<>> ELSE Trim(r.capturedOut[1])

\* runPythonUserCode: prolog, user code and epilog run as one program; an
\* exception in the user code ends the program before the epilog
RunPythonUserCode(r, b) ==
  IF b.kind = "syntax"
    THEN [run |-> r, stdout |-> CapturedStdout(r), error |-> Some(b.message)]
    ELSE LET r1 == [r EXCEPT !.origStdout = r.sysStdout,
                             !.origStdin = r.sysStdin,
                             !.sysStdout = "capture",
                             !.sysStdin = "mock"]
             r2 == [r1 EXCEPT !.capturedOut = Some(b.printed),
                              !.sysStdout = r1.origStdout,
                              !.sysStdin = r1.origStdin]
         IN IF b.kind = "throws"
              THEN [run |-> r1, stdout |-> CapturedStdout(r1), error |-> Some(b.message)]
              ELSE [run |-> r2, stdout |-> CapturedStdout(r2), error |-> Absent]

\* `if (result.error)`: the error is a non-empty string
ErrorReported(out) == out.error # Absent /\ out.error[1] # <<>>

\* executeTestCase after the runtime returned out
Judge(out, testCase) ==
  LET actualResult == UndefinedText
      actualStdout == out.stdout
      expected == Trim(testCase.expectedOutput)
      output == IF actualStdout # <<>> THEN actualStdout ELSE actualResult
      passed == actualResult = expected \/ actualStdout = expected
  IN [passed |-> IF ErrorReported(out) THEN FALSE ELSE passed,
      output |-> Trim(IF ErrorReported(out) THEN out.error[1] ELSE output),
      error |-> Absent,
      testCase |-> testCase]

\* the catch block of executeTestCase
Caught(message, testCase) ==
  [passed |-> FALSE, output |-> <<>>, error |-> Some(message), testCase |-> testCase]

\* the message of the error executeTestCase throws for Python before the
\* interpreter is ready
NotAvailable == <<"Python execution environment not available">>

\* executeTestCase handing Python code to the interpreter whatever
\* isPythonReady says
ExecuteTestCase_NoReadinessCheck(r, testCase, b) ==
  IF r.language = "python"
    THEN LET x == RunPythonUserCode(r, b)
         IN [run |-> x.run, out |-> Some([stdout |-> x.stdout, error |-> x.error]),
             result |-> Judge(x, testCase)]
    ELSE IF r.language = "javascript"
           THEN LET x == RunJavaScriptUserCode(r, b)
                IN [run |-> x.run, out |-> Some([stdout |-> x.stdout, error |-> x.error]),
                    result |-> Judge(x, testCase)]
           ELSE [run |-> r, out |-> Absent,
                 result |-> Caught(<<"Unsupported language">>, testCase)]

\* executeTestCase: the runner after the call, what the runtime returned
\* (Absent when no runtime ran) and the ExecutionResult
ExecuteTestCase(r, testCase, b) ==
  IF r.language = "python"
    THEN IF ~r.isPythonReady
           THEN [run |-> r, out |-> Absent,
                 result |-> Caught(NotAvailable, testCase)]
           ELSE LET x == RunPythonUserCode(r, b)
                IN [run |-> x.run, out |-> Some([stdout |-> x.stdout, error |-> x.error]),
                    result |-> Judge(x, testCase)]
    ELSE IF r.language = "javascript"
           THEN LET x == RunJavaScriptUserCode(r, b)
                IN [run |-> x.run, out |-> Some([stdout |-> x.stdout, error |-> x.error]),
                    result |-> Judge(x, testCase)]
           ELSE [run |-> r, out |-> Absent,
                 result |-> Caught(<<"Unsupported language">>, testCase)]

\* runCode is called while no run is in progress
RunCode ==
  /\ run.pc # "running"
  /\ run.runs < MaxRuns
  /\ \E language \in Languages, n \in 0..MaxTests :
       \E tests \in [1..n -> TestCases] :
         run' = [run EXCEPT !.pc = IF n = 0 THEN "returned" ELSE "running",
                            !.runs = @ + 1,
                            !.language = language,
                            !.tests = tests,
                            !.results = <<>>,
                            !.last = Absent]
  /\ UNCHANGED <<page, user, net, slow, mounts, mon, ls, st, sub, timer, pend, chain, gh,
                 prep, sc, ed>>

\* the loop of runCode ending at the first test case whose execution throws
ExecuteNext_Aborts ==
  /\ run.pc = "running"
  /\ \E b \in Behaviours(run.language) :
       LET testCase == run.tests[Len(run.results) + 1]
           x == ExecuteTestCase(run, testCase, b)
           results == Append(run.results, x.result)
       IN run' = IF x.out = Absent
                   THEN [run EXCEPT !.pc = "returned"]
                   ELSE [x.run EXCEPT
                           !.results = results,
                           !.last = Some([kind |-> b.kind, message |-> b.message,
                                          out |-> x.out]),
                           !.pc = IF Len(results) = Len(run.tests)
                                    THEN "returned" ELSE "running"]
  /\ UNCHANGED <<page, user, net, slow, mounts, mon, ls, st, sub, timer, pend, chain, gh,
                 prep, sc, ed>>

\* one iteration of the loop of runCode: the next test case is executed
\* on code that behaves as b, and its result pushed
ExecuteNext ==
  /\ run.pc = "running"
  /\ \E b \in Behaviours(run.language) :
       LET testCase == run.tests[Len(run.results) + 1]
           x == ExecuteTestCase(run, testCase, b)
           results == Append(run.results, x.result)
       IN run' = [x.run EXCEPT
                    !.results = results,
                    !.last = Some([kind |-> b.kind, message |-> b.message, out |-> x.out]),
                    !.pc = IF Len(results) = Len(run.tests) THEN "returned" ELSE "running"]
  /\ UNCHANGED <<page, user, net, slow, mounts, mon, ls, st, sub, timer, pend, chain, gh,
                 prep, sc, ed>>

\* initializePython: loadPyodideIfNeeded has resolved (the instance was
\* there already, or the Pyodide script has loaded)
PythonLoads ==
  /\ run.init = "loading"
  /\ run' = [run EXCEPT !.isPythonReady = TRUE, !.init = "ready"]
  /\ prep' = [prep EXCEPT !.pyodide = TRUE]
  /\ UNCHANGED <<page, user, net, slow, mounts, mon, ls, st, sub, timer, pend, chain, gh,
                 sc, ed>>

\* initializePython: loadPyodideIfNeeded has rejected (the script could not
\* be fetched); the catch block leaves isPythonReady false
PythonLoadFails ==
  /\ run.init = "loading"
  /\ ~prep.pyodide
  /\ run' = [run EXCEPT !.isPythonReady = FALSE, !.init = "failed"]
  /\ UNCHANGED <<page, user, net, slow, mounts, mon, ls, st, sub, timer, pend, chain, gh,
                 prep, sc, ed>>

\* ------------------------------------------------ markProblemDone: scoring
\* point values a test case declares
PointValues == {0, 30, 70}

\* the `points` of the test cases of a problem, <<>> where a test case
\* declares none
PointLists(n) == [1..n -> {Absent} \cup {Some(p) : p \in PointValues}]

NoScore == [points |-> <<>>, passed |-> <<>>, score |-> Absent]

\* Number(tc.points) || 0
PointsOf(tc) == IF tc = Absent THEN 0 ELSE tc[1]

\* testCases.map(tc => Number(tc.points) || 0)
PtsArray(points) == [i \in 1..Len(points) |-> PointsOf(points[i])]

\* ptsArray[idx] || 0
PtsAt(pts, i) == IF i <= Len(pts) THEN pts[i] ELSE 0

Max(a, b) == IF a >= b THEN a ELSE b

\* the reduce of markProblemDone over the first n results.  The even split
\* is 100 / Math.max(1, n); it is taken only when the problem has no test
\* case, and a run over no test case returns no result, so that the
\* quotient never has a fractional part here.
RECURSIVE ScoreUpTo(_, _, _)
ScoreUpTo(pts, passed, n) ==
  IF n = 0 THEN 0
  ELSE ScoreUpTo(pts, passed, n - 1)
         + (IF passed[n]
              THEN IF Len(pts) > 0 THEN PtsAt(pts, n)
                                   ELSE 100 \div Max(1, Len(passed))
              ELSE 0)

ProblemScore(points, passed) == ScoreUpTo(PtsArray(points), passed, Len(passed))

\* the tests of the current problem have run: one result per test case
TestsRun ==
  /\ \E n \in 0..MaxTests :
       \E points \in PointLists(n), passed \in [1..n -> BOOLEAN] :
         sc' = [points |-> points, passed |-> passed, score |-> Absent]
  /\ UNCHANGED <<page, user, net, slow, mounts, mon, ls, st, sub, timer, pend, chain, gh,
                 prep, run, ed>>

\* markProblemDone computes the score of the problem from the results
ScoreProblem ==
  /\ sc.score = Absent
  /\ sc' = [sc EXCEPT !.score = Some(ProblemScore(sc.points, sc.passed))]
  /\ UNCHANGED <<page, user, net, slow, mounts, mon, ls, st, sub, timer, pend, chain, gh,
                 prep, run, ed>>

\* ------------------------------------------------- play page: the editor
\* The editor state of EnhancedProblemSolver: the code, the language chosen
\* and the results of the last run.  A run's results are represented by the
\* inputs they were computed from.  scored observes markProblemDone: the
\* inputs of the results it scored and the editor's content at that moment.

\* contents of the editor: empty, the problem's template, two user texts
EditorCodes == {"", "template", "a", "b"}

Inputs(e) == [code |-> e.code, language |-> e.language]

\* the editor's onChange: setCode
SetCode ==
  /\ page = "solver"
  /\ \E c \in EditorCodes \ {ed.code} : ed' = [ed EXCEPT !.code = c]
  /\ UNCHANGED <<page, user, net, slow, mounts, mon, ls, st, sub, timer, pend, chain, gh,
                 prep, run, sc>>

\* the language selector: setLanguage, then the template effect of the next
\* render replaces the code when the problem has a template for the language
SetLanguage ==
  /\ page = "solver"
  /\ \E l \in Languages \ {ed.language}, hasTemplate \in BOOLEAN :
       ed' = [ed EXCEPT !.language = l,
                        !.code = IF hasTemplate THEN "template" ELSE @]
  /\ UNCHANGED <<page, user, net, slow, mounts, mon, ls, st, sub, timer, pend, chain, gh,
                 prep, run, sc>>

\* runCode of the play page ("Run"): the results of running the editor's
\* code replace testResults
SolverRunCode ==
  /\ page = "solver"
  /\ ed.code # ""
  /\ ed' = [ed EXCEPT !.testResults = Some(Inputs(ed))]
  /\ UNCHANGED <<page, user, net, slow, mounts, mon, ls, st, sub, timer, pend, chain, gh,
                 prep, run, sc>>

\* markProblemDone's choice of the results it scores
ResultsToUse(e) ==
  IF e.testResults = Absent THEN Some(Inputs(e)) ELSE e.testResults

\* markProblemDone up to the results it scores; the implicit run stores its
\* results as runCode does
MarkProblemDoneResults ==
  /\ page = "solver"
  /\ ed.code # ""
  /\ ed' = [ed EXCEPT !.testResults = ResultsToUse(ed),
                      !.scored = Some([from |-> ResultsToUse(ed)[1],
                                       editor |-> Inputs(ed)])]
  /\ UNCHANGED <<page, user, net, slow, mounts, mon, ls, st, sub, timer, pend, chain, gh,
                 prep, run, sc>>

\* loadNextProblem's reset of the editor for the next problem
LoadNextProblemEditor ==
  /\ page = "solver"
  /\ ed.scored # Absent
  /\ \E hasTemplate \in BOOLEAN :
       ed' = [ed EXCEPT !.code = IF hasTemplate THEN "template" ELSE "",
                        !.testResults = Absent]
  /\ UNCHANGED <<page, user, net, slow, mounts, mon, ls, st, sub, timer, pend, chain, gh,
                 prep, run, sc>>

\* ------------------------------------------------------------ specification
InitStorage ==
  [state |-> Absent, results |-> <<>>, final |-> Absent, last |-> None,
   loadTime |-> FALSE, violations |-> 0, user |-> "A",
   cache |-> TRUE, probs |-> TRUE, prepared |-> TRUE]

\* the application is open on another page, the user is logged in
InitWith(storage) ==
  /\ page = "home"
  /\ user = "A"
  /\ net \in BOOLEAN
  /\ slow = FALSE
  /\ mounts = 0
  /\ mon = NewMonitor(net)
  /\ ls = storage
  /\ st = InitialState(mon.status)
  /\ sub = NoSub
  /\ timer = NoTimer
  /\ pend = NoPend
  /\ chain = NoChain
  /\ gh = NoGhost
  /\ prep = NoPrep
  /\ run = NoRun
  /\ sc = NoScore
  /\ ed = NoEditor

\* the contest was prepared and its document cached on the preparation page
Init == InitWith(InitStorage)

\* The session: page loads, the countdown, the problem sequence, completion,
\* with the network coming and going.
Next ==
  \/ Mount
  \/ FetchResolve
  \/ TimerTick
  \/ MarkProblemDone
  \/ DelayedComplete
  \/ DelayedNext
  \/ ShowFinalFire
  \/ NetChange

Spec == Init /\ [][Next]_vars

\* the play page is opened once and not reloaded
FirstMount == mounts = 0 /\ Mount

\* One page load of a session down to its completion: the countdown, the
\* problem sequence and the connectivity events that can record violations.
CountdownNext ==
  \/ FirstMount
  \/ FetchResolve
  \/ TimerTick
  \/ MarkProblemDone
  \/ DelayedNext
  \/ DelayedComplete
  \/ NetChange

\* the interval of the countdown keeps firing while it is set
CountdownSpec == Init /\ [][CountdownNext]_vars /\ WF_vars(TimerTick)

\* Violation detection: every path that probes or re-checks connectivity.
ConnNext ==
  \/ Mount
  \/ FetchResolve
  \/ TimerTick
  \/ NetChange
  \/ MonitorProbe
  \/ EffectCheckResolve
  \/ StartCheckResolve
  \/ EnhancedTick
  \/ EnhancedResolve

ConnSpec == Init /\ [][ConnNext]_vars

\* Violation accounting alone: the paths that can record a violation and
\* the page loads that persist and rehydrate the counters, with the
\* countdown left out.
ViolationNext ==
  \/ Mount
  \/ FetchResolve
  \/ NetChange
  \/ MonitorProbe
  \/ EffectCheckResolve
  \/ StartCheckResolve
  \/ EnhancedTick
  \/ EnhancedResolve

ViolationSpec == Init /\ [][ViolationNext]_vars

\* Final submission of a session that ran out of time.
SubmitNext ==
  \/ Mount
  \/ TimerTick
  \/ NetChange
  \/ ShowFinalFire
  \/ SubmitClick
  \/ PostResolve
  \/ RetryFire
  \/ NavigateAfterSuccess
  \/ NavigateAfterFailure

SubmitSpec == Init /\ [][SubmitNext]_vars

\* timeouts fire and requests settle
FairSubmitSpec ==
  /\ SubmitSpec
  /\ WF_vars(PostResolve)
  /\ WF_vars(RetryFire)
  /\ WF_vars(NavigateAfterSuccess)
  /\ WF_vars(NavigateAfterFailure)

\* the preparation page: nothing is cached or prepared yet
PrepInit ==
  \E cached \in BOOLEAN :
    InitWith([InitStorage EXCEPT !.cache = cached, !.probs = cached, !.prepared = FALSE])

PrepNext ==
  \/ PrepareContest
  \/ PythonLibrariesDone
  \/ JavaScriptLibrariesDone
  \/ ProblemsFetched
  \/ ProblemsLoaded
  \/ PreloadSettled
  \/ EnvironmentReady
  \/ PreparationFinished
  \/ ResetPreparation
  \/ NetChange

PrepSpec == PrepInit /\ [][PrepNext]_vars

\* the storage a session of user u in progress leaves behind: one problem
\* done, one violation recorded
SessionStorage(u) ==
  [InitStorage EXCEPT
     !.user = u,
     !.state = Some([contestStarted |-> TRUE, currentProblemIndex |-> 1,
                     problemResults |-> <<100>>, contestCompleted |-> FALSE,
                     timeLeft |-> 1, violationCount |-> 1,
                     penaltyPoints |-> PenaltyPerViolation]),
     !.results = <<100>>,
     !.violations = 1,
     !.last = "offline"]

\* Entry into the play page.  The storage is shared by every tab and user of
\* the browser: it may hold the identity and the session of another user
\* than the one this tab has in memory, and the contest may or may not be
\* prepared.
EntryInit ==
  \E prev \in Users, hadSession \in BOOLEAN, prepared \in BOOLEAN :
    InitWith([(IF hadSession THEN SessionStorage(prev)
                             ELSE [InitStorage EXCEPT !.user = prev])
                EXCEPT !.prepared = prepared])

EntryNext ==
  \/ Login
  \/ HandleStartContest
  \/ Mount
  \/ FetchResolve
  \/ NetChange
  \/ MonitorProbe

EntrySpec == EntryInit /\ [][EntryNext]_vars

\* The problem sequence alone: page loads, problems marked done, the two
\* timeouts of markProblemDone and the one of completeContest, with the
\* network coming and going; the countdown is left out.
ProblemNext ==
  \/ Mount
  \/ FetchResolve
  \/ MarkProblemDone
  \/ DelayedNext
  \/ DelayedComplete
  \/ ShowFinalFire
  \/ NetChange

ProblemSpec == Init /\ [][ProblemNext]_vars

\* Start-up from whatever the contest_state key holds: nothing, the record
\* of a session in progress, or text that does not parse; the contest
\* document may or may not be cached.
ParseInit ==
  \E stored \in {Absent, Some(Unparsable), SessionStorage("A").state},
     cached \in BOOLEAN :
    InitWith([InitStorage EXCEPT !.state = stored, !.cache = cached])

ParseNext ==
  \/ Mount
  \/ FetchResolve
  \/ NetChange
  \/ MonitorProbe
  \/ StartCheckResolve

ParseSpec == ParseInit /\ [][ParseNext]_vars

\* The code runner alone: runs of any test cases in any language on code of
\* any behaviour, with the Python runtime arriving at any moment.
RunNext ==
  \/ RunCode
  \/ ExecuteNext
  \/ PythonLoads

RunSpec == Init /\ [][RunNext]_vars

\* A session played with the network up throughout: every connectivity
\* check sends its request and settles when the answer arrives, which may
\* be after the countdown has ended the session.
OnlineInit == Init /\ net

OnlineNext ==
  \/ Mount
  \/ FetchResolve
  \/ TimerTick
  \/ MonitorProbe
  \/ EffectCheckResolve
  \/ StartCheckResolve

OnlineSpec == OnlineInit /\ [][OnlineNext]_vars

\* The editor alone: editing, choosing a language, running, marking done.
EditorNext ==
  \/ Mount
  \/ SetCode
  \/ SetLanguage
  \/ SolverRunCode
  \/ MarkProblemDoneResults
  \/ LoadNextProblemEditor

EditorSpec == Init /\ [][EditorNext]_vars

\* The interpreter's two loaders: the runner's own initialization and the
\* warm-up of preparation stage 4, with runs of the runner in between.
PyodideNext ==
  \/ PrepareContest
  \/ PythonLibrariesDone
  \/ JavaScriptLibrariesDone
  \/ ProblemsLoaded
  \/ PreloadSettled
  \/ PythonLoads
  \/ PythonLoadFails
  \/ RunCode
  \/ ExecuteNext

PyodideSpec == Init /\ [][PyodideNext]_vars

\* Scoring alone: problems with any declared point values and any outcome
\* of their tests.
ScoreNext ==
  \/ TestsRun
  \/ ScoreProblem

ScoreSpec == Init /\ [][ScoreNext]_vars

\* The connectivity monitor on its own: any order of calls of its methods,
\* with the network and its latency changing.
MonNext ==
  \/ CallStartMonitoring
  \/ CallStopMonitoring
  \/ CallPerformCheck
  \/ MonitorSubscribe
  \/ MonitorUnsubscribe
  \/ MonitorProbe
  \/ NetChange
  \/ LatencyChange

MonSpec == Init /\ [][MonNext]_vars

\* Subscribers of the two singletons while a preparation runs and the
\* network comes and goes.
SubNext ==
  \/ PrepSubscribe
  \/ PrepUnsubscribe
  \/ MonitorSubscribe
  \/ MonitorUnsubscribe
  \/ PrepareContest
  \/ PythonLibrariesDone
  \/ JavaScriptLibrariesDone
  \/ ProblemsLoaded
  \/ PreloadSettled
  \/ EnvironmentReady
  \/ PreparationFinished
  \/ NetChange

SubSpec == Init /\ [][SubNext]_vars

\* ================================================================ properties

\* C1: the countdown reaching zero completes the session exactly once: the
\* countdown callbacks never call completeContest a second time in one
\* session, also when several of them run in the same turn.
C1_TimerCompletesOnce == gh.timerCompletions <= 1

\* C2: while the session is running, one offline->online transition is
\* penalised once: between two offline periods of the network at most one
\* violation is recorded, however many notifications, probes and re-checks
\* report "online".
C2_OnePenaltyPerTransition == gh.violSince <= 1

\* C3: in every session state, live or persisted, penaltyPoints is ten times
\* violationCount.
C3_PenaltyIsTenPerViolation ==
  /\ st.pen = 10 * st.viol
  /\ ls.state # Absent => ls.state[1].penaltyPoints = 10 * ls.state[1].violationCount

\* C3 witness: a reloaded session that carries the maximal number of
\* violations and their penalty
C3_Witness ==
  /\ mounts = MaxMounts
  /\ gh.restored # Absent
  /\ gh.restored[1].violationCount = MaxViolations
  /\ st.viol = MaxViolations
  /\ st.pen = 10 * MaxViolations

\* C4: when completing the last problem takes the session to Completed (each
\* problem answered once), the persisted FinalResult has totalScore = (sum of
\* the scores of all recorded problem results, the last one included) -
\* penaltyPoints, and its penaltyPoints is the penalty of the session at that
\* moment.
C4_FinalScoreCountsEveryResult ==
  (/\ gh.trigger = "problem" /\ gh.completions = 1 /\ ls.final # Absent
   /\ Len(ls.results) = st.idx + 1)
    => /\ ls.final[1].totalScore = SumSeq(ls.results) - ls.final[1].penaltyPoints
       /\ ls.final[1].penaltyPoints = st.pen

\* C5: round trip: when the contest load that ends the start-up of a
\* reloaded page settles, the live values still equal the ones that were
\* read from the persisted session state.
LiveSessionValues(s) == SessionValues(Snapshot(s))

C5_RoundTrip ==
  [][(/\ gh.restored # Absent
      /\ mounts' = mounts
      /\ pend.fetch /\ ~pend'.fetch
      /\ LiveSessionValues(st) = gh.restored[1])
     => LiveSessionValues(st') = gh.restored[1]]_vars

\* C6: a call chain whose POST fails twice and then succeeds makes exactly 3
\* POSTs, waits 1000 ms then 2000 ms between them and goes from pending to
\* success exactly once; no call chain makes more than 3 POSTs or succeeds
\* twice.
C6_ThreeAttemptsWithBackoff ==
  /\ gh.posts <= 3
  /\ gh.successes <= 1
  /\ (chain.phase = "success" /\ gh.failures = 2)
       => /\ gh.posts = 3
          /\ gh.delays = <<1000, 2000>>
          /\ gh.successes = 1

\* C6 witness: a chain that failed twice and then succeeded
C6_Witness ==
  /\ chain.phase = "success"
  /\ gh.failures = 2
  /\ gh.posts = 3

\* C7: once a POST of a call chain has been acknowledged with a successful
\* response, the chain issues no further POST.
C7_NoPostAfterAck == gh.postsAfterAck = 0

\* C8: when every attempt of a call chain has failed, the step that gives up
\* reports the failure and no step of the chain or of the navigation touches
\* the persisted FinalResult; the user is eventually taken to the default
\* location (unless the page is reloaded first, which drops the chain).
C8_ExhaustedKeepsResultAndLeaves ==
  /\ [][(mounts' = mounts /\ (chain' # chain \/ page' # page))
          => ls'.final = ls.final]_vars
  /\ [](chain.phase = "exhausted" => gh.reported /\ gh.posts = maxRetries)
  /\ (chain.phase = "exhausted") ~> (page = "home" \/ chain.phase # "exhausted")

\* C8 witness: the chain gave up, the FinalResult is still stored and the
\* user is back on the default page
C8_Witness ==
  /\ chain.phase = "exhausted"
  /\ gh.reported
  /\ ls.final # Absent
  /\ page = "home"

\* C9: prepareContest called while a run is in flight returns false at once,
\* leaves the progress as it is, notifies nobody and starts no run; at most
\* one run is active at any time.
C9_SingleRunInFlight ==
  /\ [][(prep'.calls = prep.calls + 1 /\ ActiveRuns(prep) # {})
          => /\ prep'.ret[prep'.calls] = "false"
             /\ prep'.stage = prep.stage
             /\ prep'.progress = prep.progress
             /\ prep'.notifs = prep.notifs
             /\ ActiveRuns(prep') = ActiveRuns(prep)]_vars
  /\ [](Cardinality(ActiveRuns(prep)) <= 1)

\* C9 witness: a call was rejected while a run was in flight
C9_Witness ==
  /\ ActiveRuns(prep) # {}
  /\ \E r \in RunIds : prep.pc[r] = "rejected" /\ prep.ret[r] = "false"

\* C10: the progress values a run that reached "ready" has published never
\* decrease and end at 100.
NonDecreasing(q) == \A i \in 1..(Len(q) - 1) : q[i] <= q[i + 1]

C10_ProgressMonotonic ==
  \A r \in RunIds :
    prep.pc[r] = "done" => NonDecreasing(prep.seq[r]) /\ prep.seq[r][Len(prep.seq[r])] = 100

\* C11: a run that finishes publishes {ready, 100} and returns true, or
\* publishes {error, 0} and returns false; either way the in-flight guard is
\* clear afterwards, so a prepareContest call made when no run is in flight
\* is accepted and starts a new run.
FinishedPcs == {"done", "failed"}

C11_GuardClearedWhenRunEnds ==
  /\ [][\A r \in RunIds :
          (prep.pc[r] \in RunPcs /\ prep'.pc[r] \in FinishedPcs)
            => /\ ~prep'.isPreparing
               /\ prep'.pc[r] = "done"
                    => prep'.ret[r] = "true" /\ prep'.stage = "ready" /\ prep'.progress = 100
               /\ prep'.pc[r] = "failed"
                    => prep'.ret[r] = "false" /\ prep'.stage = "error" /\ prep'.progress = 0]_vars
  /\ [][(prep'.calls = prep.calls + 1 /\ ActiveRuns(prep) = {})
          => /\ prep'.pc[prep'.calls] \in RunPcs
             /\ prep'.isPreparing
             /\ prep'.stage = "downloading"]_vars

\* C11 witness: one run failed, the next call was accepted and its run is
\* in flight
C11_Witness ==
  \E r1, r2 \in RunIds :
    /\ r1 < r2
    /\ prep.pc[r1] = "failed"
    /\ prep.pc[r2] \in RunPcs

\* C12: the check interval exists (exactly one timer) iff the last of
\* startMonitoring / stopMonitoring called was startMonitoring; a repeated
\* startMonitoring creates no second timer, a repeated stopMonitoring or one
\* without monitoring changes nothing.
C12_IntervalIffStarted ==
  /\ mon.intervals = (IF mon.lastCall = "start" THEN 1 ELSE 0)
  /\ mon.isMonitoring <=> mon.lastCall = "start"

\* C12 witness: startMonitoring was called twice in a row and one timer
\* exists
C12_Witness ==
  /\ mon.prevCall = "start"
  /\ mon.lastCall = "start"
  /\ mon.intervals = 1
  /\ mon.isMonitoring

\* C14: a performCheck call made while the link is reported down issues no
\* request and resolves to the offline status; no performCheck call throws,
\* and a request that fails or times out resolves to the offline status.
OfflineStatus == Status(FALSE, "offline")

C14_CheckWhenDown ==
  /\ ~gh.escaped
  /\ gh.lastCheck # <<>> =>
       /\ gh.lastCheck[1].down
            => ~gh.lastCheck[1].probed /\ gh.lastCheck[1].status = OfflineStatus
       /\ gh.lastCheck[1].status \in
            {OfflineStatus, Status(TRUE, "good"), Status(TRUE, "poor")}
       /\ ~gh.lastCheck[1].status.isOnline => gh.lastCheck[1].status = OfflineStatus

\* C14 witness: performCheck was called with the link down while a throwing
\* callback was subscribed, and the monitor holds the offline status
C14_Witness ==
  /\ gh.lastCheck # <<>>
  /\ gh.lastCheck[1].down
  /\ InSeq(mon.callbacks, 1)
  /\ gh.heard[1] = <<OfflineStatus>>
  /\ mon.status = OfflineStatus

\* C15: subscribe invokes the callback at once with the current status, every
\* later status update reaches every subscribed callback, and a callback is
\* not invoked after its unsubscribe.
C15_SubscribeDeliversCurrentStatus ==
  \A c \in Subscribers :
    IF InSeq(mon.callbacks, c)
      THEN gh.heard[c] = <<mon.status>>
      ELSE gh.heard[c] = <<>>

\* C16: in the monitor and in the pipeline alike, an exception a callback
\* throws -- in a broadcast or in the invocation subscribe makes -- never
\* leaves the method that invoked it; the throwing callback stays subscribed
\* and every subscribed callback has received the latest value.
C16_CallbackExceptionsContained ==
  /\ ~gh.escaped
  /\ ~prep.escaped
  /\ \A c \in Subscribers :
       InSeq(prep.callbacks, c) => prep.heard[c] = <<Progress(prep)>>

\* C13: the status the monitor holds and the copy of it in the session
\* controller both satisfy isOnline = false <=> quality = offline.
StatusConsistent(x) == ~x.isOnline <=> x.quality = "offline"

C13_OfflineIffQualityOffline ==
  /\ StatusConsistent(mon.status)
  /\ StatusConsistent(st.status)

\* C17: a login of user u while the stored identity is another user clears
\* the persisted session state, results, final result and violation history,
\* stores u as the current user and returns true; a login of the stored user
\* returns false and changes nothing persisted.
C17_ResetOnDifferentUser ==
  [][gh'.logins = gh.logins + 1 =>
       IF ls.user # gh'.loginUser
         THEN /\ gh'.loginReturn
              /\ ls'.state = Absent
              /\ ls'.results = <<>>
              /\ ls'.final = Absent
              /\ ls'.violations = 0
              /\ ls'.user = gh'.loginUser
         ELSE /\ ~gh'.loginReturn
              /\ ls' = ls]_vars

\* C17 witness: a login of B found the identity and the session of another
\* user stored; the storage is clear and B's
C17_Witness ==
  /\ gh.logins = 1
  /\ gh.loginUser = "B"
  /\ gh.loginReturn
  /\ ls.user = "B"
  /\ ls.state = Absent
  /\ ls.violations = 0

\* C18: a page load that detects a different stored user wipes the session
\* and leaves it NotStarted: not started, no countdown, no monitoring.
C18_FreshNotStartedAfterUserChange ==
  [][(mounts' = mounts + 1 /\ ls.user # user)
       => /\ ls'.user = user
          /\ ls'.results = <<>>
          /\ ls'.final = Absent
          /\ st'.viol = 0 /\ st'.pen = 0 /\ st'.results = <<>>
          /\ ~st'.started
          /\ ~timer'.active
          /\ ~mon'.isMonitoring]_vars

\* C19: the session goes from NotStarted to Running only when the contest's
\* prepared flag is stored at that moment.
C19_StartOnlyWhenPrepared ==
  [][(mounts' = mounts + 1 /\ gh'.restored = Absent /\ st'.started)
       => ls'.prepared]_vars

RECURSIVE PassedCount(_, _)
PassedCount(passed, n) ==
  IF n = 0 THEN 0 ELSE PassedCount(passed, n - 1) + (IF passed[n] THEN 1 ELSE 0)

\* sum of the declared point values of the passed tests among the first n
RECURSIVE DeclaredSum(_, _, _)
DeclaredSum(points, passed, n) ==
  IF n = 0 THEN 0
  ELSE DeclaredSum(points, passed, n - 1)
         + (IF passed[n] /\ points[n] # Absent THEN points[n][1] ELSE 0)

\* C22: the score of a problem is the sum of the declared point values of
\* its passed tests; when none of its N tests declares a point value, every
\* passed test contributes 100/N.
C22_ScoreIsDeclaredSumOrEvenSplit ==
  sc.score # Absent =>
    LET n == Len(sc.passed)
    IN IF \E i \in 1..n : sc.points[i] # Absent
         THEN sc.score[1] = DeclaredSum(sc.points, sc.passed, n)
         ELSE sc.score[1] * n = 100 * PassedCount(sc.passed, n)

\* no timeout of markProblemDone or completeContest is still to fire
CompletionSettled == pend.complete = {} /\ pend.next = {} /\ ~pend.showFinal

\* C23: once the session is Completed and completion processing has
\* finished, no session-state record is persisted.
C23_StateClearedOnCompletion ==
  (page = "solver" /\ st.completed /\ CompletionSettled) => ls.state = Absent

\* one of the persisted session values differs between the two renders
SessionMutated(a, b) ==
  \/ a.started # b.started
  \/ a.idx # b.idx
  \/ a.results # b.results
  \/ a.completed # b.completed
  \/ a.timeLeft # b.timeLeft
  \/ a.viol # b.viol
  \/ a.pen # b.pen

\* C24: every step of the play page that changes contestStarted,
\* currentProblemIndex, problemResults, contestCompleted, timeLeft,
\* violationCount or penaltyPoints and leaves the session Running or
\* Completed leaves a persisted session-state record holding the seven live
\* values.
C24_PersistedEqualsLive ==
  [][(page' = "solver" /\ SessionMutated(st, st') /\ (st'.started \/ st'.completed))
       => /\ ls'.state # Absent
          /\ ls'.state[1].contestStarted = st'.started
          /\ ls'.state[1].currentProblemIndex = st'.idx
          /\ ls'.state[1].problemResults = st'.results
          /\ ls'.state[1].contestCompleted = st'.completed
          /\ ls'.state[1].timeLeft = st'.timeLeft
          /\ ls'.state[1].violationCount = st'.viol
          /\ ls'.state[1].penaltyPoints = st'.pen]_vars

\* C24 witness: a Running session with a violation, its penalty and a
\* problem result, all of them in the persisted record
C24_Witness ==
  /\ page = "solver"
  /\ st.started /\ ~st.completed
  /\ st.viol = 1 /\ st.pen = PenaltyPerViolation
  /\ Len(st.results) = 1
  /\ st.idx = 1
  /\ ls.state = Some(Snapshot(st))

\* C25: in the Completed state the monitor's interval is cleared and the
\* 1-second countdown interval is cancelled.
C25_NoIntervalWhenCompleted ==
  (page = "solver" /\ st.completed)
    => /\ ~mon.isMonitoring
       /\ mon.intervals = 0
       /\ ~timer.active

\* C26: a page load that finds an unparsable session-state record does not
\* fail; it leaves the session Running at problem index 0 with no results,
\* no violation, no penalty and the contest's or a default timer value, and
\* the unparsable record is replaced by the record of the new session.
C26_UnparsableStateStartsFresh ==
  [][(mounts' = mounts + 1 /\ ls.user = user /\ ls.state = Some(Unparsable))
       => /\ page' = "solver"
          /\ gh'.restored = Absent
          /\ st'.started /\ ~st'.completed
          /\ st'.idx = 0
          /\ st'.results = <<>>
          /\ st'.viol = 0 /\ st'.pen = 0
          /\ st'.timeLeft \in {Duration, DefaultTimeLeft, FallbackTimeLeft}
          /\ mon'.isMonitoring
          /\ ls'.state = Some(Snapshot(st'))]_vars

\* C26 witness: the first page load fell back to a fresh session with the
\* timer value that only the parse-error path sets
C26_Witness ==
  /\ mounts = 1
  /\ gh.restored = Absent
  /\ st.started /\ ~st.completed
  /\ st.timeLeft = FallbackTimeLeft
  /\ st.idx = 0 /\ st.results = <<>> /\ st.viol = 0 /\ st.pen = 0

C28_PassIffNoErrorAndMatch ==
  (run.last # Absent /\ run.last[1].out # Absent) =>
    LET result == run.results[Len(run.results)]
        out == run.last[1].out[1]
        raised == run.last[1].kind \in {"throws", "syntax"}
        expected == Trim(result.testCase.expectedOutput)
    IN /\ result.passed <=>
            (~raised /\ (UndefinedText = expected \/ out.stdout = expected))
       /\ (raised /\ run.last[1].message # <<>>)
            => result.output = Trim(run.last[1].message)

\* C29: between the executions of test cases console.log, sys.stdout and
\* sys.stdin are what they were before the run.
C29_RedirectionRestored ==
  /\ run.consoleLog = "original"
  /\ run.sysStdout = "original"
  /\ run.sysStdin = "original"

\* C30: while the play page shows a session that is not started or is
\* Completed, no step changes violationCount, penaltyPoints or the penalty
\* of the stored final result.
C30_CountersFrozenOutsideRunning ==
  [][(page = "solver" /\ page' = "solver" /\ mounts' = mounts
        /\ (~st.started \/ st.completed))
       => /\ st'.viol = st.viol
          /\ st'.pen = st.pen
          /\ (ls.final # Absent /\ ls'.final # Absent)
               => ls'.final[1].penaltyPoints = ls.final[1].penaltyPoints]_vars


\* C31: the results list never holds more results than problems reached
\* (currentProblemIndex + 1) nor more than there are problems, also when
\* markProblemDone is clicked again before the delayed step has run.
C31_OneResultPerProblem ==
  (page = "solver" /\ st.loaded)
    => /\ Len(st.results) <= st.idx + 1
       /\ Len(st.results) <= NumProblems
       /\ Len(ls.results) <= st.idx + 1
       /\ Len(ls.results) <= NumProblems

\* C32: within one session the final result is computed and persisted at
\* most once: once the session is Completed, no later trigger (countdown
\* expiry or the delayed completion of markProblemDone) runs completeContest
\* again or rewrites the persisted final result.
C32_FinalResultComputedOnce ==
  [][(page = "solver" /\ page' = "solver" /\ mounts' = mounts /\ st.completed)
       => /\ gh'.completions = gh.completions
          /\ ls'.final = ls.final]_vars

\* C33: while the session is Running, no step raises timeLeft and timeLeft
\* never goes below 0: whatever happens (the contest load settling, a
\* violation, a problem marked done), the countdown only goes down.
C33_TimeLeftOnlyDecreases ==
  [][(page = "solver" /\ page' = "solver" /\ mounts' = mounts
        /\ st.started /\ ~st.completed)
       => /\ st'.timeLeft <= st.timeLeft
          /\ st'.timeLeft >= 0]_vars

C35_PostOnlyWhenOnline ==
  [][(page = "solver" /\ chain' # chain /\ chain'.phase = "posting")
       => st.status.isOnline]_vars

\* C36: the test results markProblemDone scores come from a run of the code
\* and the language that are in the editor when it is called.
C36_ScoresCurrentCode ==
  ed.scored # Absent => ed.scored[1].from = ed.scored[1].editor

\* C37: as long as the preparation was not reset, the prepared flag is set,
\* a run has returned true, or the stage is "ready" only when a problem list
\* of the contest is in the persisted cache.
C37_PreparedImpliesProblemsCached ==
  prep.resets = 0
    => /\ ls.prepared => ls.probs
       /\ \A r \in RunIds : prep.ret[r] = "true" => ls.probs
       /\ prep.stage = "ready" => ls.probs

\* C38: once resetPreparation has returned, the prepared flag stays cleared
\* and the live progress stays {idle, 0} in every step that is not a new
\* call of prepareContest, also when a run was in flight at the reset.
\* (The stage is "idle" after a reset exactly until a run is started, and no
\* call was rejected.)
C38_ResetStays ==
  [][(/\ prep.resets > 0
      /\ prep.stage = "idle" /\ prep.progress = 0 /\ ~ls.prepared
      /\ \A r \in RunIds : prep.pc[r] # "rejected"
      /\ prep'.calls = prep.calls)
       => /\ ~ls'.prepared
          /\ prep'.stage = "idle"
          /\ prep'.progress = 0]_vars

\* C39: as long as the interpreter has not been loaded, the execution of a
\* Python test case pushes a failed result with the "not available" error
\* at once, without handing the code to a runtime or leaving anything
\* pending; a JavaScript test case is executed and never gets that error,
\* whatever the load state.
C39_PythonRejectedUntilLoaded ==
  [][(run'.runs = run.runs /\ Len(run'.results) = Len(run.results) + 1)
       => LET result == run'.results[Len(run'.results)]
          IN /\ (run.language = "python" /\ ~prep.pyodide)
                  => /\ ~result.passed
                     /\ result.error = Some(NotAvailable)
                     /\ run'.last[1].out = Absent
                     /\ run'.sysStdout = run.sysStdout
                     /\ run'.capturedOut = run.capturedOut
             /\ run.language = "javascript"
                  => /\ run'.last[1].out # Absent
                     /\ result.error # Some(NotAvailable)]_vars

\* C39 witness: a Python run of two test cases returned with both rejected
\* while the interpreter was still not loaded
C39_Witness ==
  /\ run.pc = "returned"
  /\ run.language = "python"
  /\ ~prep.pyodide
  /\ Len(run.results) = 2
  /\ \A i \in 1..2 : run.results[i].error = Some(NotAvailable) /\ ~run.results[i].passed

\* C40: once the interpreter has been loaded, by the runner's own
\* initialization or by the warm-up of the preparation, the execution of a
\* Python test case is not rejected with the "not available" error.
C40_PythonAcceptedOnceLoaded ==
  [][(/\ run'.runs = run.runs /\ Len(run'.results) = Len(run.results) + 1
      /\ run.language = "python" /\ prep.pyodide)
       => run'.results[Len(run'.results)].error # Some(NotAvailable)]_vars

====
